---- MODULE Spec2Model ----
(***************************************************************************)
(* Model of algoliasearch-node.js: the host pool built by the AlgoliaSearch *)
(* constructor, the request dispatcher (_jsonRequest, its inner impl and    *)
(* per-attempt callback, and _jsonRequestByHost with its 'end' and 'error'  *)
(* handlers), the rate-limit forward context and the request options built  *)
(* from it, and the Index methods deleteObject and waitTask.                *)
(*                                                                          *)
(* JavaScript indices are 0-based, TLA+ sequences 1-based: the host at JS   *)
(* index idx is hosts[idx + 1], and the k-th attempt of a call is           *)
(* attempts[k].                                                             *)
(***************************************************************************)
EXTENDS Integers, Sequences, FiniteSets, TLC

VARIABLES
    hosts,      \* AlgoliaSearch.prototype.hosts: ONE array, shared by every client
    clients,    \* the clients constructed so far (their hostsArray argument)
    calls,      \* per logical call: the opts object and what it has done so far
    deletes,    \* per logical call: the deleteObject invocation it serves
    waits,      \* the waitTask invocation: its status checks and its callback
    built       \* the request options built last by _computeRequestOptions

\* the state of the Index methods and of the request builder
facade == <<deletes, waits, built>>

vars == <<hosts, clients, calls, deletes, waits, built>>

-----------------------------------------------------------------------------
(* Bounds of the model *)

MaxPool == 3        \* longest shared host array explored
MaxClients == 1     \* number of constructions explored
MaxBuilds == 2      \* number of constructions explored for the host pool alone
MaxWaitPool == 2    \* longest host array a waitTask is explored on
MaxChecks == 3      \* number of status checks explored for a waitTask
MaxLateErrors == 1  \* status-check attempts explored with both events

-----------------------------------------------------------------------------
(* Inputs *)

\* applicationID and apiKey arguments given to the constructor
ApplicationIDs == {"app1"}

ApiKeys == {"apiKey1"}

\* JavaScript's null, a value that is none of the strings below
Null == "<null>"

\* hostsArray arguments given to the constructor
HostLists == { <<>>, <<"h1">>, <<"h1", "h2">>, <<"h1", "h2", "h3">> }

\* status codes a response may carry: the two retryable ones, the two
\* successes, and one each of the other 2xx, the 4xx and the other 5xx
Statuses == {0, 200, 201, 204, 404, 500, 503}

\* the response's content-type header
ContentTypes == {"application/json", "text/html", "absent"}

\* the text of a response body: a JSON object, the JSON literal null,
\* text that is not JSON
BodyTexts == {"object", "null", "malformed"}

\* the responses explored: every body text under a JSON content type, and
\* text that is not JSON under the other two (the text of a response that
\* is not declared JSON is never parsed)
Responses ==
    { r \in [status : Statuses, ctype : ContentTypes, text : BodyTexts] :
          r.ctype # "application/json" => r.text = "malformed" }

\* the responses explored as the late 'end' of a request that has already
\* emitted 'error'
LateResponses ==
    { r \in Responses : r.status \in {200, 404, 503} /\ r.ctype = "text/html" }

NoResponse == [status |-> -1, ctype |-> "-", text |-> "-"]

\* the logical calls of a behaviour
CallIds == {"c1"}

-----------------------------------------------------------------------------
(* The constructor's randomized reversal *)

\* a faulty Reverse: the array is left as it is
ReverseNever(s) == s

Reverse(s) == [i \in 1..Len(s) |-> s[Len(s) + 1 - i]]

\* the arrays `hosts` may hold after the loop has handled hostsArray[i..]
\* and the final coin flip, starting from the array `pool`
RECURSIVE AddHosts(_, _, _)
AddHosts(pool, hostsArray, i) ==
    IF i > Len(hostsArray)
    THEN {pool, Reverse(pool)}
    ELSE UNION { AddHosts(Append(p, hostsArray[i]), hostsArray, i + 1) :
                     p \in {pool, Reverse(pool)} }

\* the list the constructor uses when hostsArray is undefined
DefaultHosts(applicationID) ==
    CASE applicationID = "app1" ->
             <<"app1-1.algolia.io", "app1-2.algolia.io", "app1-3.algolia.io">>

-----------------------------------------------------------------------------
(* The rate-limit forward context of a client *)

\* a faulty enableRateLimitForward: the admin key is stored as the client's
\* API key
enableRateLimitForwardAsApiKey(client, adminAPIKey, endUserIP, rateLimitAPIKey) ==
    [client EXCEPT !.apiKey = adminAPIKey,
                   !.forwardEndUserIP = endUserIP,
                   !.forwardLimitAPIKey = rateLimitAPIKey]

\* client.enableRateLimitForward(adminAPIKey, endUserIP, rateLimitAPIKey)
enableRateLimitForward(client, adminAPIKey, endUserIP, rateLimitAPIKey) ==
    [client EXCEPT !.forwardAdminAPIKey = adminAPIKey,
                   !.forwardEndUserIP = endUserIP,
                   !.forwardLimitAPIKey = rateLimitAPIKey]

\* a faulty disableRateLimitForward: the admin key alone is cleared
disableRateLimitForwardKeyOnly(client) ==
    [client EXCEPT !.forwardAdminAPIKey = Null]

\* client.disableRateLimitForward()
disableRateLimitForward(client) ==
    [client EXCEPT !.forwardAdminAPIKey = Null,
                   !.forwardEndUserIP = Null,
                   !.forwardLimitAPIKey = Null]

\* the object `this` when the constructor starts: its own fields are not
\* set yet, and its hosts is the array of the prototype.  forwardCall is
\* the enable/disable call made last on the client (none yet)
NewClient ==
    [applicationID |-> Null, apiKey |-> Null, hostsArray |-> <<>>,
     pool |-> <<>>, forwardAdminAPIKey |-> Null,
     forwardEndUserIP |-> Null, forwardLimitAPIKey |-> Null,
     forwardCall |-> [op |-> "none", adminAPIKey |-> Null,
                      endUserIP |-> Null, rateLimitAPIKey |-> Null]]

\* arguments given to enableRateLimitForward
AdminAPIKeys == {Null, "adminKey1", "adminKey2"}

EndUserIPs == {"ip1", "ip2"}

RateLimitAPIKeys == {"limitKey1"}

-----------------------------------------------------------------------------
(* _computeRequestOptions *)

\* a header that is not set
Absent == "<absent>"

\* opts.body: undefined, or a value given by the text JSON.stringify makes
\* of it, a sequence of UTF-16 code units
NoBody == [defined |-> FALSE, json |-> <<>>]

\* the values of opts.body explored: undefined, {}, {"k":"e"} with an acute
\* e (one unit, two bytes), "E" with a euro sign (one unit, three bytes),
\* "G" with a G clef (a surrogate pair, four bytes), and a string holding a
\* low surrogate alone
OptsBodies ==
    { NoBody,
      [defined |-> TRUE, json |-> <<123, 125>>],
      [defined |-> TRUE, json |-> <<123, 34, 107, 34, 58, 34, 233, 34, 125>>],
      [defined |-> TRUE, json |-> <<34, 8364, 34>>],
      [defined |-> TRUE, json |-> <<34, 55348, 56606, 34>>],
      [defined |-> TRUE, json |-> <<34, 56606, 34>>] }

\* the opts object a facade method gives _jsonRequest: no hostname yet
CallerOpts(method, url, body) ==
    [method |-> method, hostname |-> Absent, url |-> url, body |-> body]

\* the opts object given to _jsonRequest in the runs of the dispatcher
JsonRequestOpts ==
    { CallerOpts("POST", "/1/keys", [defined |-> TRUE, json |-> <<123, 125>>]) }

\* the opts object deleteObject makes for the object obj1 of the index index1
DeleteOpts == CallerOpts("DELETE", "/1/indexes/index1/obj1", NoBody)

\* the opts object waitTask makes for the task 1 of the index index1
TaskOpts == CallerOpts("GET", "/1/indexes/index1/task/1", NoBody)

\* the opts objects explored for the request builder alone
RequestOpts ==
    { [CallerOpts("POST", "/1/keys", body) EXCEPT !.hostname = "h1"] :
          body \in OptsBodies }

\* the local variable body of _jsonRequestByHost: null, or a string
NullBody == [null |-> TRUE, text |-> <<>>]

\* body = JSON.stringify(opts.body) when opts.body is not undefined
Stringify(value) ==
    IF value.defined THEN [null |-> FALSE, text |-> value.json] ELSE NullBody

HighSurrogate(u) == u >= 55296 /\ u <= 56319

LowSurrogate(u) == u >= 56320 /\ u <= 57343

\* a faulty UnitBytes: every code unit counts for one byte
UnitBytesOne(text, i) == 1

\* the bytes the i-th code unit of text adds to the buffer: a surrogate
\* pair makes four bytes, counted at its first unit; a surrogate alone
\* makes three bytes
UnitBytes(text, i) ==
    LET u == text[i]
    IN IF u < 128 THEN 1
       ELSE IF u < 2048 THEN 2
       ELSE IF HighSurrogate(u) /\ i < Len(text) /\ LowSurrogate(text[i + 1]) THEN 4
       ELSE IF LowSurrogate(u) /\ i > 1 /\ HighSurrogate(text[i - 1]) THEN 0
       ELSE 3

\* the bytes of the first n code units of text
RECURSIVE BytesUpTo(_, _)
BytesUpTo(text, n) ==
    IF n = 0 THEN 0 ELSE BytesUpTo(text, n - 1) + UnitBytes(text, n)

\* new Buffer(body, 'utf8').length
BufferLength(text) == BytesUpTo(text, Len(text))

\* a faulty forwarding test: the context is never taken as enabled
ForwardingNever(client) == client.forwardAdminAPIKey # client.forwardAdminAPIKey

\* this.forwardAdminAPIKey !== null
Forwarding(client) == client.forwardAdminAPIKey # Null

\* client._computeRequestOptions(opts, body): the method, target and
\* headers of the request (the port and the agent are left out)
computeRequestOptions(client, opts, body) ==
    [method |-> opts.method,
     hostname |-> opts.hostname,
     path |-> opts.url,
     headers |->
        [applicationId |-> client.applicationID,
         contentType |-> IF body.null THEN Absent ELSE "application/json",
         contentLength |-> IF body.null THEN 0 ELSE BufferLength(body.text),
         apiKey |-> IF Forwarding(client) THEN client.forwardAdminAPIKey
                                          ELSE client.apiKey,
         forwardedAPIKey |-> IF Forwarding(client) THEN client.forwardLimitAPIKey
                                                   ELSE Absent,
         forwardedFor |-> IF Forwarding(client) THEN client.forwardEndUserIP
                                                ELSE Absent]]

-----------------------------------------------------------------------------
(* Payloads handed to callbacks.  att is the attempt the payload came from *)
(* (0 when it came from none).                                              *)

CannotContactServer == [kind |-> "Cannot contact server", att |-> 0]
TransportError(k) == [kind |-> "transport error", att |-> k]
JsonNull == [kind |-> "null", att |-> 0]
JsonObject(k) == [kind |-> "object", att |-> k]
RawText(k) == [kind |-> "text", att |-> k]

\* who invoked a callback or issued an attempt: the event ev of attempt att
\* ("start": _jsonRequest itself)
Cause(k, ev) == [att |-> k, ev |-> ev]

-----------------------------------------------------------------------------
(* _jsonRequestByHost: the response handler *)

Retry(status) == status = 0 \/ status = 503

Success(status) == status = 200 \/ status = 201

\* res.headers['content-type'].toLowerCase() on a response without the header
HeaderThrows(resp) == resp.ctype = "absent"

IsJson(resp) == resp.ctype = "application/json"

\* JSON.parse on text that is not JSON
ParseThrows(resp) == IsJson(resp) /\ resp.text = "malformed"

\* the body handed to opts.callback by the 'end' handler of attempt k
Body(k, resp) ==
    IF IsJson(resp)
    THEN IF resp.text = "null" THEN JsonNull ELSE JsonObject(k)
    ELSE RawText(k)

-----------------------------------------------------------------------------
(* _jsonRequest: impl and the per-attempt callback it installs *)

\* a faulty HostAt: every attempt goes to the first host
HostAtFirst(idx) == hosts[1]

\* self.hosts[idx]
HostAt(idx) == hosts[idx + 1]

\* _jsonRequestByHost(opts) up to req.end(): the request of an attempt,
\* built from opts, whose hostname impl has just set, and from the client
\* as it is now
NewAttempt(call, idx, cause) ==
    [idx |-> idx, host |-> HostAt(idx), pool |-> hosts, cause |-> cause,
     reqOpts |-> computeRequestOptions(clients[call.client],
                                       [call.opts EXCEPT !.hostname = HostAt(idx)],
                                       Stringify(call.opts.body)),
     ended |-> FALSE, errored |-> FALSE, threw |-> FALSE, resp |-> NoResponse]

\* one invocation of the caller's callback
Callback(error, res, body, idx, cause) ==
    [error |-> error, res |-> res, body |-> body,
     idx |-> idx, n |-> Len(hosts), cause |-> cause]

NoHostLeft(idx) == Len(hosts) <= idx

\* a faulty impl: the empty pool is reported without the error flag
implNoErrorFlag(call, idx, cause) ==
    IF NoHostLeft(idx)
    THEN [call EXCEPT !.cbs =
              Append(@, Callback(FALSE, 0, CannotContactServer, -1, cause))]
    ELSE [call EXCEPT !.closure = idx,
                      !.opts.hostname = HostAt(idx),
                      !.attempts = Append(@, NewAttempt(call, idx, cause))]

\* impl(position) for the call whose record is call
impl(call, idx, cause) ==
    IF NoHostLeft(idx)
    THEN [call EXCEPT !.cbs =
              Append(@, Callback(TRUE, 0, CannotContactServer, -1, cause))]
    ELSE [call EXCEPT !.closure = idx,
                      !.opts.hostname = HostAt(idx),
                      !.attempts = Append(@, NewAttempt(call, idx, cause))]

\* console.log('Error: ' + body.message) on a null body
LogThrows(error, body) == error /\ body.kind = "null"

\* if (error && !_.isUndefined(body)) console.log('Error: ' + body.message),
\* for a body whose message can be read: the line is written, and the
\* record keeps how many attempts and callbacks the call had by then
Log(call, error, body, cause) ==
    IF error
    THEN [call EXCEPT !.logs = Append(@, [cause |-> cause, body |-> body,
                                          attempts |-> Len(call.attempts),
                                          cbs |-> Len(call.cbs)])]
    ELSE call

Advance(retry, error, idx) == retry /\ error /\ (idx + 1) < Len(hosts)

\* a faulty opts.callback: a call that runs out of hosts reports
\* 'Cannot contact server'
optsCallbackSynthetic(call, retry, error, res, body, cause) ==
    IF LogThrows(error, body)
    THEN [call EXCEPT !.attempts[cause.att].threw = TRUE]
    ELSE LET logged == Log(call, error, body, cause)
         IN IF Advance(retry, error, call.closure)
            THEN impl(logged, call.closure + 1, cause)
            ELSE [logged EXCEPT !.cbs =
                      Append(@, Callback(error, res,
                                         IF retry /\ error
                                         THEN CannotContactServer ELSE body,
                                         call.closure, cause))]

\* opts.callback(retry, error, res, body): the closure installed last, whose
\* captured idx is call.closure
optsCallback(call, retry, error, res, body, cause) ==
    IF LogThrows(error, body)
    THEN [call EXCEPT !.attempts[cause.att].threw = TRUE]
    ELSE LET logged == Log(call, error, body, cause)
         IN IF Advance(retry, error, call.closure)
            THEN impl(logged, call.closure + 1, cause)
            ELSE [logged EXCEPT !.cbs =
                      Append(@, Callback(error, res, body, call.closure, cause))]

-----------------------------------------------------------------------------
(* The two event handlers of _jsonRequestByHost, for the k-th attempt of   *)
(* the call whose record is call                                            *)

\* res.on('end', ...): the response resp is complete
onEnd(call, k, resp) ==
    LET got == [call EXCEPT !.attempts[k].ended = TRUE,
                            !.attempts[k].resp = resp]
    IN IF HeaderThrows(resp) \/ ParseThrows(resp)
       THEN [got EXCEPT !.attempts[k].threw = TRUE]
       ELSE optsCallback(got, Retry(resp.status), ~Success(resp.status),
                         k, Body(k, resp), Cause(k, "end"))

\* a faulty 'error' handler: the error reported is the first attempt's
onErrorFirst(call, k) ==
    optsCallback([call EXCEPT !.attempts[k].errored = TRUE],
                 TRUE, TRUE, 0, TransportError(1), Cause(k, "error"))

\* req.on('error', ...)
onError(call, k) ==
    optsCallback([call EXCEPT !.attempts[k].errored = TRUE],
                 TRUE, TRUE, 0, TransportError(k), Cause(k, "error"))

-----------------------------------------------------------------------------
(* Index.deleteObject *)

\* objectID arguments: null, the empty string, an identifier
ObjectIDs == {Null, "", "obj1"}

EmptyObjectID == [kind |-> "empty objectID", att |-> 0]

\* one invocation of the callback given to an Index method
IndexCallback(error, body) == [error |-> error, body |-> body]

\* a deleteObject invocation before it is made; threw: the invocation raised
NewDelete ==
    [called |-> FALSE, objectID |-> Null, hasCallback |-> FALSE,
     cbs |-> <<>>, threw |-> FALSE]

\* the dispatcher callbacks the record after has and the record before lacks
Delivered(before, after) ==
    SubSeq(after.cbs, Len(before.cbs) + 1, Len(after.cbs))

\* the callback deleteObject gives the dispatcher, applied to what the
\* dispatcher delivered in one step
deleteObjectCallback(del, delivered) ==
    IF del.hasCallback
    THEN [del EXCEPT !.cbs = @ \o [i \in 1..Len(delivered) |->
                                      IndexCallback(delivered[i].error,
                                                    delivered[i].body)]]
    ELSE del

-----------------------------------------------------------------------------
(* Index.waitTask: the answers to a status check *)

\* the text of the body of a task-status response: JSON objects with and
\* without status 'published' and a truthy pendingTask, the JSON literal
\* null, and text that is not JSON
TaskTexts ==
    {"pendingTask", "published", "published+pendingTask", "{}", "null",
     "malformed"}

\* the responses explored for a status check: every JSON body with status
\* 200, raw text with status 200, and a JSON body with the retryable status
\* 503 and with the non-retryable status 404
TaskResponses ==
    { r \in [status : {200, 404, 503}, ctype : {"application/json", "text/html"},
             text : TaskTexts] :
          /\ r.ctype = "application/json" => r.text # "malformed"
          /\ r.ctype = "text/html" => (r.text = "malformed" /\ r.status = 200)
          /\ r.status = 503 => r.text = "pendingTask"
          /\ r.status = 404 => r.text = "published" }

\* the body handed to waitTask's callback is null
BodyIsNull(body) == body.kind = "null"

\* a faulty StatusPublished: no body is taken as published
StatusPublishedNever(check, body) ==
    /\ body.kind = "object"
    /\ check.attempts[body.att].resp.text \in {}

\* a faulty StatusPublished: a body that has a truthy pendingTask too is
\* not taken as published
StatusPublishedAlone(check, body) ==
    /\ body.kind = "object"
    /\ check.attempts[body.att].resp.text \in {"published"}

\* body.status === 'published', body having come from the status check check
StatusPublished(check, body) ==
    /\ body.kind = "object"
    /\ check.attempts[body.att].resp.text \in {"published", "published+pendingTask"}

\* a faulty PendingTask: no body is taken as pending
PendingTaskNever(check, body) ==
    /\ body.kind = "object"
    /\ check.attempts[body.att].resp.text \in {}

\* body.pendingTask is truthy
PendingTask(check, body) ==
    /\ body.kind = "object"
    /\ check.attempts[body.att].resp.text \in {"pendingTask", "published+pendingTask"}

\* the second condition of waitTask's callback
Repoll(error, check, body) == ~error /\ PendingTask(check, body)

\* one invocation of the callback given to waitTask, made for the outcome
\* of the check-th status check when n status checks have been made
WaitCallback(error, body, check, n) ==
    [error |-> error, body |-> body, check |-> check, n |-> n]

\* a waitTask invocation before it is made: checks are the logical calls it
\* has made, in order; threw: its callback raised; depth: the waitTask and
\* _jsonRequest invocations now on the call stack; maxDepth: the most there
\* have been
NewWait ==
    [called |-> FALSE, checks |-> <<>>, cbs |-> <<>>, threw |-> FALSE,
     depth |-> 0, maxDepth |-> 0]

\* waitTask or _jsonRequest is invoked: one more frame
Enter(w) ==
    [w EXCEPT !.depth = @ + 1,
              !.maxDepth = IF w.depth + 1 > @ THEN w.depth + 1 ELSE @]

\* a faulty Leave: the frame stays, as if the invocation waited for the
\* response
LeaveNever(w) == w

\* waitTask or _jsonRequest returns: its frame is gone
Leave(w) == [w EXCEPT !.depth = @ - 1]

-----------------------------------------------------------------------------
(* The request options built last: none before the first is built *)

NoRequest == [client |-> 0]

-----------------------------------------------------------------------------
(* Initial state and actions *)

\* an opts object before _jsonRequest is given it; client is the client
\* whose _jsonRequest is given it (none yet) and poolLen the length of the
\* host array when it was
NewCall ==
    [started |-> FALSE, client |-> 0, opts |-> CallerOpts(Absent, Absent, NoBody),
     poolLen |-> 0, closure |-> -1, attempts |-> <<>>, cbs |-> <<>>,
     logs |-> <<>>]

Init ==
    /\ hosts = <<>>
    /\ clients = <<>>
    /\ calls = [c \in CallIds |-> NewCall]
    /\ deletes = [c \in CallIds |-> NewDelete]
    /\ waits = NewWait
    /\ built = NoRequest

\* the body of the constructor, hostsArray being the list given or the
\* default one; pool records the array this.hosts as the constructor left it
AlgoliaSearch(applicationID, apiKey, hostsArray) ==
    /\ hosts' \in AddHosts(hosts, hostsArray, 1)
    /\ clients' = Append(clients,
                         disableRateLimitForward(
                             [NewClient EXCEPT !.applicationID = applicationID,
                                               !.apiKey = apiKey,
                                               !.hostsArray = hostsArray,
                                               !.pool = hosts']))
    /\ UNCHANGED <<calls, facade>>

\* new AlgoliaSearch(applicationID, apiKey, httpsAgent, hostsArray)
Construct(applicationID, apiKey, hostsArray) ==
    /\ Len(clients) < MaxClients
    /\ Len(hosts) + Len(hostsArray) <= MaxPool
    /\ AlgoliaSearch(applicationID, apiKey, hostsArray)

\* a faulty dispatch: impl is started at the second host
dispatchAtSecond(call, i, opts) ==
    impl([call EXCEPT !.started = TRUE, !.client = i, !.opts = opts,
                      !.poolLen = Len(hosts)],
         1, Cause(0, "start"))

\* the i-th client's _jsonRequest(opts), call being the record of opts
dispatch(call, i, opts) ==
    impl([call EXCEPT !.started = TRUE, !.client = i, !.opts = opts,
                      !.poolLen = Len(hosts)],
         0, Cause(0, "start"))

\* a faulty _jsonRequest: the opts object of a call already made is used
\* again
jsonRequestSharedOpts(c, i, opts) ==
    /\ i \in 1..Len(clients)
    /\ ~calls[c].started
    /\ calls' = [calls EXCEPT ![c] =
                    dispatch(@, i,
                             IF \E d \in DOMAIN calls : calls[d].started
                             THEN calls[CHOOSE d \in DOMAIN calls : calls[d].started].opts
                             ELSE opts)]
    /\ UNCHANGED <<hosts, clients, facade>>

\* client._jsonRequest(opts) on the i-th client
jsonRequest(c, i, opts) ==
    /\ i \in 1..Len(clients)
    /\ ~calls[c].started
    /\ calls' = [calls EXCEPT ![c] = dispatch(@, i, opts)]
    /\ UNCHANGED <<hosts, clients, facade>>

\* an attempt that has been issued and has received no event yet
InFlight(call, k) ==
    /\ k \in 1..Len(call.attempts)
    /\ ~call.attempts[k].ended
    /\ ~call.attempts[k].errored

\* the transport completes the response of the k-th attempt of call c
ResponseEnd(c, k, resp) ==
    /\ InFlight(calls[c], k)
    /\ calls' = [calls EXCEPT ![c] = onEnd(@, k, resp)]
    /\ UNCHANGED <<hosts, clients, facade>>

\* the transport fails the k-th attempt of call c
RequestError(c, k) ==
    /\ InFlight(calls[c], k)
    /\ calls' = [calls EXCEPT ![c] = onError(@, k)]
    /\ UNCHANGED <<hosts, clients, facade>>

\* the socket of an attempt breaks while its response is being read: the
\* request has emitted 'error', and the response then emits 'end'
LateResponseEnd(c, k, resp) ==
    /\ k \in 1..Len(calls[c].attempts)
    /\ calls[c].attempts[k].errored
    /\ ~calls[c].attempts[k].ended
    /\ calls' = [calls EXCEPT ![c] = onEnd(@, k, resp)]
    /\ UNCHANGED <<hosts, clients, facade>>

\* the request emits 'error' after its response has ended
LateRequestError(c, k) ==
    /\ k \in 1..Len(calls[c].attempts)
    /\ calls[c].attempts[k].ended
    /\ ~calls[c].attempts[k].errored
    /\ calls' = [calls EXCEPT ![c] = onError(@, k)]
    /\ UNCHANGED <<hosts, clients, facade>>

\* every attempt receives one event
Next ==
    \/ \E applicationID \in ApplicationIDs, apiKey \in ApiKeys, hostsArray \in HostLists :
           Construct(applicationID, apiKey, hostsArray)
    \/ \E c \in CallIds, i \in 1..MaxClients, opts \in JsonRequestOpts :
           jsonRequest(c, i, opts)
    \/ \E c \in CallIds, k \in 1..MaxPool, resp \in Responses : ResponseEnd(c, k, resp)
    \/ \E c \in CallIds, k \in 1..MaxPool : RequestError(c, k)

Spec == Init /\ [][Next]_vars

\* an attempt may receive both of its events
NextBothEvents ==
    \/ Next
    \/ \E c \in CallIds, k \in 1..MaxPool, resp \in LateResponses :
           LateResponseEnd(c, k, resp)
    \/ \E c \in CallIds, k \in 1..MaxPool : LateRequestError(c, k)

SpecBothEvents == Init /\ [][NextBothEvents]_vars

-----------------------------------------------------------------------------
(* The constructions of a process *)

\* new AlgoliaSearch(applicationID, apiKey, httpsAgent, hostsArray)
ConstructWith(applicationID, apiKey, hostsArray) ==
    /\ Len(clients) < MaxBuilds
    /\ AlgoliaSearch(applicationID, apiKey, hostsArray)

\* new AlgoliaSearch(applicationID, apiKey): hostsArray is undefined
ConstructDefault(applicationID, apiKey) ==
    /\ Len(clients) < MaxBuilds
    /\ AlgoliaSearch(applicationID, apiKey, DefaultHosts(applicationID))

NextPool ==
    \/ \E applicationID \in ApplicationIDs, apiKey \in ApiKeys, hostsArray \in HostLists :
           ConstructWith(applicationID, apiKey, hostsArray)
    \/ \E applicationID \in ApplicationIDs, apiKey \in ApiKeys :
           ConstructDefault(applicationID, apiKey)

SpecPool == Init /\ [][NextPool]_vars

-----------------------------------------------------------------------------
(* The rate-limit forward context and the requests built under it *)

\* the i-th client's enableRateLimitForward(adminAPIKey, endUserIP,
\* rateLimitAPIKey)
EnableRateLimitForward(i, adminAPIKey, endUserIP, rateLimitAPIKey) ==
    /\ i \in 1..Len(clients)
    /\ clients' = [clients EXCEPT ![i] =
                      [enableRateLimitForward(@, adminAPIKey, endUserIP,
                                              rateLimitAPIKey)
                       EXCEPT !.forwardCall =
                                  [op |-> "enable", adminAPIKey |-> adminAPIKey,
                                   endUserIP |-> endUserIP,
                                   rateLimitAPIKey |-> rateLimitAPIKey]]]
    /\ UNCHANGED <<hosts, calls, facade>>

\* the i-th client's disableRateLimitForward()
DisableRateLimitForward(i) ==
    /\ i \in 1..Len(clients)
    /\ clients' = [clients EXCEPT ![i] =
                      [disableRateLimitForward(@)
                       EXCEPT !.forwardCall =
                                  [op |-> "disable", adminAPIKey |-> Null,
                                   endUserIP |-> Null,
                                   rateLimitAPIKey |-> Null]]]
    /\ UNCHANGED <<hosts, calls, facade>>

\* a faulty request builder: it stores the API key it sends in the client
ComputeRequestOptionsStoring(i, opts) ==
    /\ i \in 1..Len(clients)
    /\ built' = [client |-> i, was |-> clients[i], opts |-> opts,
                 reqOpts |-> computeRequestOptions(clients[i], opts,
                                                   Stringify(opts.body))]
    /\ clients' = [clients EXCEPT ![i].apiKey =
                      computeRequestOptions(clients[i], opts,
                                            Stringify(opts.body)).headers.apiKey]
    /\ UNCHANGED <<hosts, calls, deletes, waits>>

\* the i-th client builds the options of a request; built keeps them with
\* the client as it was when they were built
ComputeRequestOptions(i, opts) ==
    /\ i \in 1..Len(clients)
    /\ built' = [client |-> i, was |-> clients[i], opts |-> opts,
                 reqOpts |-> computeRequestOptions(clients[i], opts,
                                                   Stringify(opts.body))]
    /\ UNCHANGED <<hosts, clients, calls, deletes, waits>>

NextForward ==
    \/ \E applicationID \in ApplicationIDs, apiKey \in ApiKeys, hostsArray \in HostLists :
           Construct(applicationID, apiKey, hostsArray)
    \/ \E i \in 1..MaxClients, adminAPIKey \in AdminAPIKeys,
          endUserIP \in EndUserIPs, rateLimitAPIKey \in RateLimitAPIKeys :
           EnableRateLimitForward(i, adminAPIKey, endUserIP, rateLimitAPIKey)
    \/ \E i \in 1..MaxClients : DisableRateLimitForward(i)
    \/ \E i \in 1..MaxClients, opts \in RequestOpts : ComputeRequestOptions(i, opts)

SpecForward == Init /\ [][NextForward]_vars

\* the dispatcher on a client whose forward context is switched on and off
\* while calls are in flight
NextRetryForward ==
    \/ Next
    \/ \E i \in 1..MaxClients, endUserIP \in EndUserIPs :
           EnableRateLimitForward(i, "adminKey1", endUserIP, "limitKey1")
    \/ \E i \in 1..MaxClients : DisableRateLimitForward(i)

SpecRetryForward == Init /\ [][NextRetryForward]_vars

-----------------------------------------------------------------------------
(* deleteObject and the logical call it makes *)

\* index.deleteObject(objectID, callback) on an index of the i-th client,
\* callback given or not; c is the logical call it makes when it makes one
deleteObject(c, i, objectID, hasCallback) ==
    /\ i \in 1..Len(clients)
    /\ ~deletes[c].called
    /\ ~calls[c].started
    /\ LET del == [NewDelete EXCEPT !.called = TRUE, !.objectID = objectID,
                                    !.hasCallback = hasCallback]
       IN IF objectID = Null \/ objectID = ""
          THEN /\ deletes' = [deletes EXCEPT ![c] =
                                 IF hasCallback
                                 THEN [del EXCEPT !.cbs =
                                           <<IndexCallback(FALSE, EmptyObjectID)>>]
                                 ELSE [del EXCEPT !.threw = TRUE]]
               /\ UNCHANGED calls
          ELSE /\ calls' = [calls EXCEPT ![c] = dispatch(@, i, DeleteOpts)]
               /\ deletes' = [deletes EXCEPT ![c] =
                                 deleteObjectCallback(del,
                                     Delivered(calls[c],
                                               dispatch(calls[c], i, DeleteOpts)))]
    /\ UNCHANGED <<hosts, clients, waits, built>>

\* the response of the k-th attempt of a deleteObject's call is complete
DeleteResponseEnd(c, k, resp) ==
    /\ deletes[c].called
    /\ InFlight(calls[c], k)
    /\ calls' = [calls EXCEPT ![c] = onEnd(@, k, resp)]
    /\ deletes' = [deletes EXCEPT ![c] =
                      deleteObjectCallback(@,
                          Delivered(calls[c], onEnd(calls[c], k, resp)))]
    /\ UNCHANGED <<hosts, clients, waits, built>>

\* the k-th attempt of a deleteObject's call fails in the transport
DeleteRequestError(c, k) ==
    /\ deletes[c].called
    /\ InFlight(calls[c], k)
    /\ calls' = [calls EXCEPT ![c] = onError(@, k)]
    /\ deletes' = [deletes EXCEPT ![c] =
                      deleteObjectCallback(@,
                          Delivered(calls[c], onError(calls[c], k)))]
    /\ UNCHANGED <<hosts, clients, waits, built>>

NextDelete ==
    \/ \E applicationID \in ApplicationIDs, apiKey \in ApiKeys, hostsArray \in HostLists :
           Construct(applicationID, apiKey, hostsArray)
    \/ \E c \in CallIds, i \in 1..MaxClients, objectID \in ObjectIDs,
          hasCallback \in BOOLEAN :
           deleteObject(c, i, objectID, hasCallback)
    \/ \E c \in CallIds, k \in 1..MaxPool, resp \in Responses :
           DeleteResponseEnd(c, k, resp)
    \/ \E c \in CallIds, k \in 1..MaxPool : DeleteRequestError(c, k)

SpecDelete == Init /\ [][NextDelete]_vars

-----------------------------------------------------------------------------
(* waitTask and the status checks it makes *)

\* waitTask(taskID, callback) on the invocation whose record is w, made on
\* an index of the first client, and the callback it gives the dispatcher,
\* applied to the dispatcher's callback d for the i-th status check
RECURSIVE waitTask(_), waitTaskCallback(_, _, _)
waitTask(w) ==
    LET check == dispatch(NewCall, 1, TaskOpts)
        issued == [Enter(Enter(w)) EXCEPT !.called = TRUE,
                                          !.checks = Append(@, check)]
    IN Leave(Leave(IF check.cbs = <<>>
                   THEN issued
                   ELSE waitTaskCallback(issued, Len(issued.checks),
                                         check.cbs[1])))

waitTaskCallback(w, i, d) ==
    IF ~d.error /\ BodyIsNull(d.body)
    THEN [w EXCEPT !.threw = TRUE]
    ELSE IF ~d.error /\ StatusPublished(w.checks[i], d.body)
         THEN [w EXCEPT !.cbs = Append(@, WaitCallback(FALSE, d.body, i, Len(w.checks)))]
         ELSE IF Repoll(d.error, w.checks[i], d.body)
              THEN waitTask(w)
              ELSE [w EXCEPT !.cbs = Append(@, WaitCallback(TRUE, d.body, i, Len(w.checks)))]

\* the record of the invocation w after the step that turned its i-th
\* status check into the record check
afterCheck(w, i, check) ==
    LET got == [w EXCEPT !.checks[i] = check]
        delivered == Delivered(w.checks[i], check)
    IN IF delivered = <<>> THEN got
                           ELSE waitTaskCallback(got, i, delivered[1])

\* the state after new AlgoliaSearch(applicationID, apiKey, httpsAgent,
\* hostsArray) as the first construction of the process
InitWait ==
    /\ \E applicationID \in ApplicationIDs, apiKey \in ApiKeys, hostsArray \in HostLists :
           /\ Len(hostsArray) <= MaxWaitPool
           /\ hosts \in AddHosts(<<>>, hostsArray, 1)
           /\ clients = << disableRateLimitForward(
                              [NewClient EXCEPT !.applicationID = applicationID,
                                                !.apiKey = apiKey,
                                                !.hostsArray = hostsArray,
                                                !.pool = hosts]) >>
    /\ calls = [c \in CallIds |-> NewCall]
    /\ deletes = [c \in CallIds |-> NewDelete]
    /\ waits = NewWait
    /\ built = NoRequest

\* index.waitTask(taskID, callback)
WaitTask ==
    /\ ~waits.called
    /\ waits' = waitTask(waits)
    /\ UNCHANGED <<hosts, clients, calls, deletes, built>>

\* the response of the k-th attempt of the i-th status check is complete
WaitResponseEnd(i, k, resp) ==
    /\ i \in 1..Len(waits.checks)
    /\ InFlight(waits.checks[i], k)
    /\ Len(afterCheck(waits, i, onEnd(waits.checks[i], k, resp)).checks) <= MaxChecks
    /\ waits' = afterCheck(waits, i, onEnd(waits.checks[i], k, resp))
    /\ UNCHANGED <<hosts, clients, calls, deletes, built>>

\* the k-th attempt of the i-th status check fails in the transport
WaitRequestError(i, k) ==
    /\ i \in 1..Len(waits.checks)
    /\ InFlight(waits.checks[i], k)
    /\ waits' = afterCheck(waits, i, onError(waits.checks[i], k))
    /\ UNCHANGED <<hosts, clients, calls, deletes, built>>

NextWait ==
    \/ WaitTask
    \/ \E i \in 1..MaxChecks, k \in 1..MaxWaitPool, resp \in TaskResponses :
           WaitResponseEnd(i, k, resp)
    \/ \E i \in 1..MaxChecks, k \in 1..MaxWaitPool : WaitRequestError(i, k)

SpecWait == InitWait /\ [][NextWait]_vars

\* the attempts of status checks that have received both of their events
BothEvents ==
    { ik \in (1..Len(waits.checks)) \X (1..MaxWaitPool) :
          /\ ik[2] <= Len(waits.checks[ik[1]].attempts)
          /\ waits.checks[ik[1]].attempts[ik[2]].ended
          /\ waits.checks[ik[1]].attempts[ik[2]].errored }

\* the request of the k-th attempt of the i-th status check emits 'error'
\* after its response has ended
WaitLateRequestError(i, k) ==
    /\ Cardinality(BothEvents) < MaxLateErrors
    /\ i \in 1..Len(waits.checks)
    /\ k \in 1..Len(waits.checks[i].attempts)
    /\ waits.checks[i].attempts[k].ended
    /\ ~waits.checks[i].attempts[k].errored
    /\ waits' = afterCheck(waits, i, onError(waits.checks[i], k))
    /\ UNCHANGED <<hosts, clients, calls, deletes, built>>

\* an attempt of a status check may receive both of its events
NextWaitBothEvents ==
    \/ NextWait
    \/ \E i \in 1..MaxChecks, k \in 1..MaxWaitPool : WaitLateRequestError(i, k)

SpecWaitBothEvents == InitWait /\ [][NextWaitBothEvents]_vars

-----------------------------------------------------------------------------
(* Vocabulary of the properties *)

Attempts(c) == 1..Len(calls[c].attempts)

Cbs(c) == 1..Len(calls[c].cbs)

Ended(c, k) == calls[c].attempts[k].ended

Errored(c, k) == calls[c].attempts[k].errored

Status(c, k) == calls[c].attempts[k].resp.status

\* every attempt issued so far has received an event
AllAnswered(c) == \A k \in Attempts(c) : Ended(c, k) \/ Errored(c, k)

\* the k-th attempt has finished with a retryable failure
RetryableOutcome(c, k) ==
    Errored(c, k) \/ (Ended(c, k) /\ Status(c, k) \in {0, 503})

\* what the caller is to receive as the body of the k-th attempt's
\* response: the parsed value when the response declares JSON, else the text
OwnBody(c, k) ==
    LET resp == calls[c].attempts[k].resp
    IN IF resp.ctype = "application/json"
       THEN IF resp.text = "null" THEN [kind |-> "null", att |-> 0]
                                  ELSE [kind |-> "object", att |-> k]
       ELSE [kind |-> "text", att |-> k]

\* what the caller is to receive for the event ev of the k-th attempt
OwnPayload(c, k, ev) ==
    IF ev = "error" THEN [kind |-> "transport error", att |-> k]
                    ELSE OwnBody(c, k)

-----------------------------------------------------------------------------
(* C1..C10: the dispatcher *)

\* C1: on a non-empty pool of length n, a call whose every attempt receives
\* status 503 makes exactly n attempts, at indices 0..n-1 in that order, and
\* invokes the caller's callback, with failure, only after the attempt on
\* the last host has been answered; once every attempt has been answered
\* the callback has been invoked.
C1_AllHostsOn503 ==
    \A c \in CallIds :
        ( /\ calls[c].started
          /\ calls[c].poolLen >= 1
          /\ \A k \in Attempts(c) :
                 ~Errored(c, k) /\ (Ended(c, k) => Status(c, k) = 503) )
        => /\ Len(calls[c].attempts) <= Len(hosts)
           /\ \A k \in Attempts(c) : calls[c].attempts[k].idx = k - 1
           /\ \A j \in Cbs(c) :
                  /\ calls[c].cbs[j].error
                  /\ calls[c].cbs[j].n = Len(calls[c].attempts)
                  /\ calls[c].cbs[j].cause = Cause(Len(calls[c].attempts), "end")
           /\ AllAnswered(c) => Len(calls[c].cbs) = 1

\* C2: an attempt answered with a status other than 0, 503, 200 and 201 ends
\* the call in failure with that response's body, and no attempt is made on
\* a later host.
C2_NonRetryableEndsCall ==
    \A c \in CallIds : \A k \in Attempts(c) :
        (Ended(c, k) /\ Status(c, k) \notin {0, 503, 200, 201})
        => /\ Len(calls[c].attempts) = k
           /\ Len(calls[c].cbs) = 1
           /\ calls[c].cbs[1].error
           /\ calls[c].cbs[1].body = OwnBody(c, k)

\* C3: an attempt answered with status 200 or 201 ends the call in success:
\* the callback is invoked with error flag false and that response's body
\* and no further attempt is made; the error flag is false in no other case.
C3_SuccessOn200And201 ==
    \A c \in CallIds :
        /\ \A k \in Attempts(c) :
               (Ended(c, k) /\ Status(c, k) \in {200, 201})
               => /\ Len(calls[c].attempts) = k
                  /\ Len(calls[c].cbs) = 1
                  /\ ~calls[c].cbs[1].error
                  /\ calls[c].cbs[1].body = OwnBody(c, k)
        /\ \A j \in Cbs(c) :
               ~calls[c].cbs[j].error
               => /\ calls[c].cbs[j].cause.ev = "end"
                  /\ Status(c, calls[c].cbs[j].cause.att) \in {200, 201}

\* C4: a call dispatched while the host pool is empty fails at once: the
\* callback is invoked with error flag true, no response object and the
\* payload 'Cannot contact server', and no attempt is ever issued.
C4_EmptyPoolFailsAtOnce ==
    \A c \in CallIds :
        (calls[c].started /\ calls[c].poolLen = 0)
        => /\ calls[c].attempts = <<>>
           /\ Len(calls[c].cbs) = 1
           /\ calls[c].cbs[1].error
           /\ calls[c].cbs[1].res = 0
           /\ calls[c].cbs[1].body = [kind |-> "Cannot contact server", att |-> 0]

C4_Witness ==
    \E c \in CallIds :
        calls[c].started /\ calls[c].poolLen = 0 /\ Len(calls[c].cbs) = 1

\* C5: whatever events the attempts of a call receive, an 'error' besides a
\* completed response included, the caller's callback is invoked at most
\* once, and no attempt is issued after it has been invoked (a callback is
\* invoked by the closure of index idx when idx + 1 attempts exist).
C5_CallbackAtMostOnce ==
    \A c \in CallIds :
        /\ Len(calls[c].cbs) <= 1
        /\ \A j \in Cbs(c) : Len(calls[c].attempts) = calls[c].cbs[j].idx + 1

\* C6: a call all of whose issued attempts have yielded a completed response
\* or a transport error has invoked the caller's callback.  (A handler runs
\* to its end in one step, and only the events of attempts make a call
\* progress: a call whose attempts have all been answered and whose callback
\* has not been invoked never invokes it.)
C6_AnsweredCallResolves ==
    \A c \in CallIds :
        (calls[c].started /\ AllAnswered(c)) => calls[c].cbs # <<>>

\* C7: a call has at most one attempt in flight, and the attempt on host
\* i+1 exists only when the attempt on host i has finished with a retryable
\* failure.
C7_OneAttemptInFlight ==
    \A c \in CallIds :
        /\ Cardinality({k \in Attempts(c) : InFlight(calls[c], k)}) <= 1
        /\ \A k \in Attempts(c) : k >= 2 => RetryableOutcome(c, k - 1)

\* C8: the k-th attempt of a call targets the host at index k-1 of the pool
\* as it stands when the attempt is issued, and a call never makes more
\* attempts than the pool has hosts; a transport error is a retryable
\* outcome: it issues one attempt, at the next index, when a host is left,
\* and otherwise reports the failure to the caller.
C8_AttemptsFollowPoolOrder ==
    \A c \in CallIds :
        /\ Len(calls[c].attempts) <= Len(hosts)
        /\ \A k \in Attempts(c) :
               LET a == calls[c].attempts[k]
               IN /\ a.idx = k - 1
                  /\ k <= Len(a.pool)
                  /\ a.host = a.pool[k]
        /\ \A k \in Attempts(c) :
               Errored(c, k) =>
                   LET issued == {m \in Attempts(c) :
                                     calls[c].attempts[m].cause = Cause(k, "error")}
                       told == {j \in Cbs(c) :
                                   calls[c].cbs[j].cause = Cause(k, "error")}
                   IN /\ Cardinality(issued) + Cardinality(told) = 1
                      /\ \A j \in told :
                             /\ calls[c].cbs[j].error
                             /\ calls[c].cbs[j].idx + 1 = calls[c].cbs[j].n

C8_Witness ==
    \E c \in CallIds :
        /\ Len(calls[c].attempts) = 3
        /\ Errored(c, 1)
        /\ Ended(c, 2) /\ Status(c, 2) = 0
        /\ Ended(c, 3) /\ Status(c, 3) = 503
        /\ Len(calls[c].cbs) = 1

\* C9: a failure reported after a retryable outcome comes from the attempt
\* on the last host of the pool and carries that attempt's own payload: its
\* transport error, or the parsed/raw body of its 0/503 response; it never
\* carries the payload of an earlier attempt.
C9_LastAttemptPayload ==
    \A c \in CallIds : \A j \in Cbs(c) :
        LET cb == calls[c].cbs[j]
            k == cb.cause.att
        IN (k >= 1 /\ k = cb.idx + 1 /\
            (cb.cause.ev = "error" \/ Status(c, k) \in {0, 503}))
           => /\ cb.error
              /\ k = cb.n
              /\ cb.body = OwnPayload(c, k, cb.cause.ev)
              /\ cb.body.att = k
              /\ cb.res = IF cb.cause.ev = "end" THEN k ELSE 0

C9_Witness ==
    \E c \in CallIds :
        /\ Len(calls[c].attempts) = 2
        /\ Ended(c, 1) /\ Status(c, 1) = 503
        /\ Errored(c, 2)
        /\ Len(calls[c].cbs) = 1
        /\ calls[c].cbs[1].body = [kind |-> "transport error", att |-> 2]

\* the attempts of the call have all been answered with status 0 or 503
ExhaustedOnRetryableStatuses(c) ==
    /\ calls[c].poolLen >= 1
    /\ \A k \in Attempts(c) :
           Ended(c, k) /\ ~Errored(c, k) /\ Status(c, k) \in {0, 503}

\* C10 as stated: a call on a non-empty pool whose attempts were all
\* answered 0 or 503 ends in failure with the payload 'Cannot contact server'.
C10_SyntheticOnExhaustion ==
    \A c \in CallIds : \A j \in Cbs(c) :
        ExhaustedOnRetryableStatuses(c)
        => /\ calls[c].cbs[j].error
           /\ calls[c].cbs[j].body = [kind |-> "Cannot contact server", att |-> 0]

\* C10 as amended: the failure reported by a call on a non-empty pool whose
\* attempts were all answered 0 or 503 carries the parsed/raw body of the
\* last response; the payload 'Cannot contact server' is delivered only to a
\* call dispatched on an empty pool.
C10_LastBodyOnExhaustion ==
    \A c \in CallIds : \A j \in Cbs(c) :
        /\ ExhaustedOnRetryableStatuses(c)
           => /\ calls[c].cbs[j].error
              /\ calls[c].cbs[j].body = OwnBody(c, Len(calls[c].attempts))
        /\ calls[c].cbs[j].body.kind = "Cannot contact server"
           => calls[c].poolLen = 0

C10_Witness ==
    \E c \in CallIds :
        /\ ExhaustedOnRetryableStatuses(c)
        /\ Len(calls[c].attempts) = 2
        /\ Len(calls[c].cbs) = 1

-----------------------------------------------------------------------------
(* C1, C2, C3 and C6 fail where a handler raises (an absent content-type  *)
(* header, JSON that does not parse, a null body in the log statement).    *)
(* In the behaviours in which no handler has raised, they hold.            *)

NoThrow == \A c \in CallIds : \A k \in Attempts(c) : ~calls[c].attempts[k].threw

AllHostsOn503UnlessThrown == NoThrow => C1_AllHostsOn503

NonRetryableEndsCallUnlessThrown == NoThrow => C2_NonRetryableEndsCall

SuccessOn200And201UnlessThrown == NoThrow => C3_SuccessOn200And201

AnsweredCallResolvesUnlessThrown == NoThrow => C6_AnsweredCallResolves

-----------------------------------------------------------------------------
(* C11: deleteObject without an object identifier *)

\* C11: deleteObject called with objectID null or the empty string (and a
\* callback) issues no network attempt and reports a failure to the caller:
\* the callback is invoked once with error flag true and the payload
\* {message: 'empty objectID'}.
C11_EmptyObjectIDFails ==
    \A c \in CallIds :
        ( /\ deletes[c].called
          /\ deletes[c].objectID \in {Null, ""}
          /\ deletes[c].hasCallback )
        => /\ ~calls[c].started
           /\ calls[c].attempts = <<>>
           /\ Len(deletes[c].cbs) = 1
           /\ deletes[c].cbs[1].body = [kind |-> "empty objectID", att |-> 0]
           /\ deletes[c].cbs[1].error

\* what does hold of such a call: no attempt, one callback, the payload
EmptyObjectIDAnsweredLocally ==
    \A c \in CallIds :
        ( /\ deletes[c].called
          /\ deletes[c].objectID \in {Null, ""}
          /\ deletes[c].hasCallback )
        => /\ ~calls[c].started
           /\ calls[c].attempts = <<>>
           /\ Len(deletes[c].cbs) = 1
           /\ deletes[c].cbs[1].body = [kind |-> "empty objectID", att |-> 0]
           /\ ~deletes[c].cbs[1].error

-----------------------------------------------------------------------------
(* C12, C13: the host pool of a client *)

\* the number of times x occurs in the sequence q
Occurrences(q, x) == Cardinality({i \in 1..Len(q) : q[i] = x})

\* C12: whatever clients were constructed before it, the Host Pool a
\* construction with the host list H leaves its client holds exactly the
\* hosts of H, each once: it is a permutation of H.
C12_PoolIsPermutationOfHostList ==
    \A i \in 1..Len(clients) :
        LET pool == clients[i].pool
            H == clients[i].hostsArray
        IN /\ Len(pool) = Len(H)
           /\ \A j \in 1..Len(H) : Occurrences(pool, H[j]) = 1

\* what does hold: the pool of the first client is a permutation of its
\* list, and the pool of a later one holds the hosts of every list so far
FirstPoolIsPermutationOfHostList ==
    /\ Len(clients) >= 1 =>
           LET pool == clients[1].pool
               H == clients[1].hostsArray
           IN /\ Len(pool) = Len(H)
              /\ \A j \in 1..Len(H) : Occurrences(pool, H[j]) = 1
    /\ \A i \in 1..Len(clients) : \A m \in 1..i : \A j \in 1..Len(clients[m].hostsArray) :
           Occurrences(clients[i].pool, clients[m].hostsArray[j]) >= 1

\* C13: the Host Pool of a constructed client (the array its hosts field
\* resolves to) stays as its constructor left it, whatever happens later,
\* the construction of another client included.
C13_PoolNeverChanges ==
    \A i \in 1..Len(clients) : hosts = clients[i].pool

-----------------------------------------------------------------------------
(* C14..C19: waitTask *)

Checks == 1..Len(waits.checks)

\* the dispatcher has invoked the callback of the i-th status check
Answered(i) == waits.checks[i].cbs # <<>>

\* what the dispatcher reported for the i-th status check
Outcome(i) == waits.checks[i].cbs[1]

\* the text of the response the dispatcher's report of the i-th status
\* check came from ("-" when it came from no response)
ReportedText(i) ==
    IF Outcome(i).cause.ev = "end"
    THEN waits.checks[i].attempts[Outcome(i).cause.att].resp.text
    ELSE "-"

\* the i-th status check succeeded with a body whose pendingTask is truthy
\* and whose status is not 'published'
SuccessPending(i) ==
    Answered(i) /\ ~Outcome(i).error /\ ReportedText(i) = "pendingTask"

\* the i-th status check succeeded with a body whose status is 'published'
SuccessPublished(i) ==
    /\ Answered(i) /\ ~Outcome(i).error
    /\ ReportedText(i) \in {"published", "published+pendingTask"}

\* the i-th status check succeeded with a body that has neither
SuccessNeither(i) ==
    /\ Answered(i) /\ ~Outcome(i).error
    /\ ReportedText(i) \notin {"pendingTask", "published", "published+pendingTask"}

\* the attempts of the i-th status check were answered and by nothing
\* else: none has received an 'error' besides its completed response
AnsweredOnly(i) ==
    \A k \in 1..Len(waits.checks[i].attempts) :
        ~(waits.checks[i].attempts[k].ended /\ waits.checks[i].attempts[k].errored)

\* C14: when the first n status checks succeed with a pending body and the
\* next one succeeds with a published body, waitTask has made exactly n+1
\* status checks and has invoked the callback once, with error flag false
\* and the body of the last response.
C14_PublishedAfterPending ==
    \A m \in Checks :
        ( /\ \A i \in 1..m : AnsweredOnly(i)
          /\ \A i \in 1..(m - 1) : SuccessPending(i)
          /\ SuccessPublished(m) )
        => /\ Len(waits.checks) = m
           /\ Len(waits.cbs) = 1
           /\ ~waits.cbs[1].error
           /\ waits.cbs[1].check = m
           /\ waits.cbs[1].body = Outcome(m).body
           /\ waits.cbs[1].body = [kind |-> "object", att |-> Outcome(m).cause.att]

C14_Witness ==
    /\ Len(waits.checks) = 3
    /\ SuccessPending(1) /\ SuccessPending(2) /\ SuccessPublished(3)
    /\ Len(waits.cbs) = 1

\* C15: when a status check succeeds at the dispatcher with a body that has
\* neither status 'published' nor a truthy pendingTask, waitTask invokes
\* the callback with error flag true and that body and makes no further
\* status check.
C15_NeitherFails ==
    \A i \in Checks :
        SuccessNeither(i)
        => /\ Len(waits.checks) = i
           /\ Len(waits.cbs) = 1
           /\ waits.cbs[1].error
           /\ waits.cbs[1].check = i
           /\ waits.cbs[1].body = Outcome(i).body

\* what does hold: C15 for every such body but the JSON literal null
NeitherFailsUnlessNull ==
    \A i \in Checks :
        (SuccessNeither(i) /\ ReportedText(i) # "null")
        => /\ Len(waits.checks) = i
           /\ Len(waits.cbs) = 1
           /\ waits.cbs[1].error
           /\ waits.cbs[1].check = i
           /\ waits.cbs[1].body = Outcome(i).body

\* C16: when the dispatcher reports an error for a status check, waitTask
\* invokes the callback with error flag true and the dispatcher's payload
\* and makes no further status check, whatever that payload carries.
C16_DispatcherErrorEndsPolling ==
    \A i \in Checks : \A r \in 1..Len(waits.checks[i].cbs) :
        waits.checks[i].cbs[r].error
        => \E j \in 1..Len(waits.cbs) :
               /\ waits.cbs[j].error
               /\ waits.cbs[j].check = i
               /\ waits.cbs[j].body = waits.checks[i].cbs[r].body
               /\ waits.cbs[j].n = Len(waits.checks)

\* C17: while every status check answered so far succeeded with a pending
\* body, the callback has not been invoked and one more status check has
\* been made than have been answered: no number of pending answers ends
\* the polling.
C17_PendingAlwaysRepolls ==
    ( /\ waits.called
      /\ \A i \in Checks : AnsweredOnly(i) /\ (Answered(i) => SuccessPending(i)) )
    => /\ waits.cbs = <<>>
       /\ \A i \in Checks : Answered(i) <=> i < Len(waits.checks)

C17_Witness ==
    /\ Len(waits.checks) = 3
    /\ SuccessPending(1) /\ SuccessPending(2)
    /\ ~Answered(3)
    /\ waits.cbs = <<>>

\* C18: every status check is a dispatch of its own: its first attempt is
\* on the host at index 0 of the pool, whichever host answered the check
\* before it, its k-th attempt is on the host at index k-1, made after the
\* attempt before it ended in a retryable failure, and it makes no more
\* attempts than the pool has hosts.
C18_EveryCheckIsAFullDispatch ==
    \A i \in Checks :
        LET check == waits.checks[i]
        IN /\ check.started
           /\ Len(hosts) >= 1 => Len(check.attempts) >= 1
           /\ Len(check.attempts) <= Len(hosts)
           /\ \A k \in 1..Len(check.attempts) :
                  /\ check.attempts[k].idx = k - 1
                  /\ check.attempts[k].host = hosts[k]
                  /\ k >= 2 =>
                         \/ check.attempts[k - 1].errored
                         \/ /\ check.attempts[k - 1].ended
                            /\ check.attempts[k - 1].resp.status \in {0, 503}

C18_Witness ==
    /\ Len(hosts) = 2
    /\ Len(waits.checks) = 2
    /\ SuccessPending(1) /\ Outcome(1).cause.att = 2
    /\ Len(waits.checks[2].attempts) = 2
    /\ waits.checks[2].attempts[1].host = hosts[1]
    /\ waits.checks[2].attempts[2].host = hosts[2]

\* C19: a waitTask invocation invokes its callback at most once, and makes
\* no status check after it has invoked it (a callback invoked when n
\* status checks had been made: n are made in all).
C19_WaitCallbackAtMostOnce ==
    /\ Len(waits.cbs) <= 1
    /\ \A j \in 1..Len(waits.cbs) : waits.cbs[j].n = Len(waits.checks)

-----------------------------------------------------------------------------
(* C20: the rate-limit forward context *)

-----------------------------------------------------------------------------
(* C21: the requests of one logical call *)

\* the request options of the k-th attempt of the call c
ReqOpts(c, k) == calls[c].attempts[k].reqOpts

\* C21: the requests of the attempts of one logical call differ in their
\* target host only: method, path and headers (authentication, forwarding,
\* content type and length) are the same for every attempt, also when the
\* forward context is enabled or disabled between two attempts.
C21_OnlyHostChangesAcrossAttempts ==
    \A c \in CallIds : \A k \in Attempts(c) : \A m \in Attempts(c) :
        /\ ReqOpts(c, k).method = ReqOpts(c, m).method
        /\ ReqOpts(c, k).path = ReqOpts(c, m).path
        /\ ReqOpts(c, k).headers = ReqOpts(c, m).headers

\* what does hold: method, path and the headers made from the client's
\* identity and from the body are the same for every attempt, and every
\* request is built from the forward context as it is when its attempt
\* is issued
OnlyHostAndForwardingChange ==
    \A c \in CallIds : \A k \in Attempts(c) : \A m \in Attempts(c) :
        /\ ReqOpts(c, k).method = ReqOpts(c, m).method
        /\ ReqOpts(c, k).path = ReqOpts(c, m).path
        /\ ReqOpts(c, k).headers.applicationId = ReqOpts(c, m).headers.applicationId
        /\ ReqOpts(c, k).headers.contentType = ReqOpts(c, m).headers.contentType
        /\ ReqOpts(c, k).headers.contentLength = ReqOpts(c, m).headers.contentLength
        /\ ReqOpts(c, k).hostname = calls[c].attempts[k].host

-----------------------------------------------------------------------------
(* C22, C23: exceptions in the handlers *)

\* the event ev of the k-th attempt of the call c was followed up: it
\* issued the next attempt or invoked the caller's callback
Handled(c, k, ev) ==
    \/ \E m \in Attempts(c) : calls[c].attempts[m].cause = [att |-> k, ev |-> ev]
    \/ \E j \in Cbs(c) : calls[c].cbs[j].cause = [att |-> k, ev |-> ev]

\* C22: whatever the status, the content-type header and the body of a
\* completed response, no exception is raised in handling it, and its
\* outcome is followed up: the next attempt is issued or the caller's
\* callback is invoked; the call does not end without a callback.
C22_NoExceptionEscapes ==
    \A c \in CallIds : \A k \in Attempts(c) :
        Ended(c, k) => (~calls[c].attempts[k].threw /\ Handled(c, k, "end"))

\* the response of the k-th attempt has a content-type header and, when
\* the header names JSON, a body that is JSON
Readable(c, k) ==
    LET resp == calls[c].attempts[k].resp
    IN /\ resp.ctype # "absent"
       /\ resp.ctype = "application/json" => resp.text # "malformed"

\* what does hold: C22 for the responses that have a content-type header,
\* a body that parses when it is declared JSON, and a body other than
\* null when the status is a failure
NoExceptionOnWellFormedResponses ==
    \A c \in CallIds : \A k \in Attempts(c) :
        ( /\ Ended(c, k)
          /\ Readable(c, k)
          /\ ~(Status(c, k) \notin {200, 201} /\ OwnBody(c, k).kind = "null") )
        => (~calls[c].attempts[k].threw /\ Handled(c, k, "end"))

\* C23: the log statement leaves the control flow alone: every failure
\* outcome the per-attempt callback is given, a null body included, is
\* followed up as it would be without the statement: the next attempt is
\* issued, or the caller's callback is invoked with the error flag and
\* that body.
C23_LoggingNeverAltersControlFlow ==
    \A c \in CallIds : \A k \in Attempts(c) :
        /\ (Ended(c, k) /\ Readable(c, k)) =>
               /\ Handled(c, k, "end")
               /\ \A j \in Cbs(c) :
                      calls[c].cbs[j].cause = [att |-> k, ev |-> "end"]
                      => /\ calls[c].cbs[j].body = OwnBody(c, k)
                         /\ calls[c].cbs[j].error = (Status(c, k) \notin {200, 201})
        /\ Errored(c, k) =>
               /\ Handled(c, k, "error")
               /\ \A j \in Cbs(c) :
                      calls[c].cbs[j].cause = [att |-> k, ev |-> "error"]
                      => /\ calls[c].cbs[j].body = OwnPayload(c, k, "error")
                         /\ calls[c].cbs[j].error

\* what does hold: C23 for every failure payload but the JSON literal null
LoggingNeutralUnlessNullBody ==
    \A c \in CallIds : \A k \in Attempts(c) :
        /\ ( /\ Ended(c, k) /\ Readable(c, k)
             /\ ~(Status(c, k) \notin {200, 201} /\ OwnBody(c, k).kind = "null") )
           => /\ Handled(c, k, "end")
              /\ \A j \in Cbs(c) :
                     calls[c].cbs[j].cause = [att |-> k, ev |-> "end"]
                     => /\ calls[c].cbs[j].body = OwnBody(c, k)
                        /\ calls[c].cbs[j].error = (Status(c, k) \notin {200, 201})
        /\ Errored(c, k) =>
               /\ Handled(c, k, "error")
               /\ \A j \in Cbs(c) :
                      calls[c].cbs[j].cause = [att |-> k, ev |-> "error"]
                      => /\ calls[c].cbs[j].body = OwnPayload(c, k, "error")
                         /\ calls[c].cbs[j].error

-----------------------------------------------------------------------------
(* C25: deleteObject without a callback *)

\* C25: deleteObject called without a callback never raises, whatever the
\* objectID, null and the empty string included, and no outcome is handed
\* to anyone.
C25_DeleteWithoutCallbackNeverRaises ==
    \A c \in CallIds :
        (deletes[c].called /\ ~deletes[c].hasCallback)
        => (~deletes[c].threw /\ deletes[c].cbs = <<>>)

\* what does hold: C25 for an objectID that is an identifier
DeleteByIdWithoutCallbackNeverRaises ==
    \A c \in CallIds :
        ( /\ deletes[c].called
          /\ ~deletes[c].hasCallback
          /\ deletes[c].objectID \notin {Null, ""} )
        => (~deletes[c].threw /\ deletes[c].cbs = <<>>)

-----------------------------------------------------------------------------
(* C27: the log of failure payloads *)

\* the log lines the call c wrote for the event ev of its k-th attempt
LogsOf(c, k, ev) ==
    {l \in 1..Len(calls[c].logs) :
        calls[c].logs[l].cause = [att |-> k, ev |-> ev]}

\* the failure payload of the event ev of the k-th attempt of c was logged
\* once, before the attempt or the callback the event led to
LoggedOnceBefore(c, k, ev) ==
    /\ Cardinality(LogsOf(c, k, ev)) = 1
    /\ \A l \in LogsOf(c, k, ev) :
          /\ calls[c].logs[l].body = OwnPayload(c, k, ev)
          /\ \A m \in Attempts(c) :
                calls[c].attempts[m].cause = [att |-> k, ev |-> ev]
                => m > calls[c].logs[l].attempts
          /\ \A j \in Cbs(c) :
                calls[c].cbs[j].cause = [att |-> k, ev |-> ev]
                => j > calls[c].logs[l].cbs

\* C27: every failure payload of an attempt, a transport error or a
\* response whose status is neither 200 nor 201, retryable or not, is
\* logged exactly once, and before the next attempt is issued or the
\* caller's callback is invoked for it.
C27_EveryFailureLoggedOnce ==
    \A c \in CallIds : \A k \in Attempts(c) :
        /\ (Ended(c, k) /\ Status(c, k) \notin {200, 201})
               => LoggedOnceBefore(c, k, "end")
        /\ Errored(c, k) => LoggedOnceBefore(c, k, "error")

\* what does hold: C27 for the attempts whose handlers raise nothing
EveryFailureLoggedOnceUnlessThrown ==
    \A c \in CallIds : \A k \in Attempts(c) :
        ~calls[c].attempts[k].threw =>
            /\ (Ended(c, k) /\ Status(c, k) \notin {200, 201})
                   => LoggedOnceBefore(c, k, "end")
            /\ Errored(c, k) => LoggedOnceBefore(c, k, "error")

\* no log line is written for a success
NoLogForSuccess ==
    \A c \in CallIds : \A k \in Attempts(c) :
        (Ended(c, k) /\ Status(c, k) \in {200, 201}) => LogsOf(c, k, "end") = {}

-----------------------------------------------------------------------------
(* C28: the call stack of the poller *)

\* C28: however many status checks a waitTask makes, never more than one
\* waitTask invocation and the one _jsonRequest invocation it makes are
\* nested on the call stack, and none is left on it between two events: a
\* status check is re-issued only from a response-completion event, and
\* the dispatcher's one synchronous answer, for the empty pool, is an
\* error, which re-issues nothing.
C28_PollerStackIsBounded ==
    /\ waits.depth = 0
    /\ waits.maxDepth <= 2
    /\ \A i \in 1..Len(waits.checks) :
          (waits.checks[i].attempts = <<>>) => Len(waits.checks) = 1

\* a waitTask that has made three status checks or more
C28_Witness ==
    /\ Len(waits.checks) >= 3
    /\ waits.maxDepth = 2
    /\ waits.cbs # <<>>

-----------------------------------------------------------------------------
(* C29, C30: the request builder *)

\* C29: building a request changes nothing: the pool, the clients
\* (identity, host list, forward context) and the calls in flight are as
\* before, no attempt is issued, and the request is made from the options
\* and the client as it is then, so that two builds from the same options
\* and the same client state give the same request.
C29_BuildingIsPure ==
    [][ built' # built =>
          /\ hosts' = hosts
          /\ clients' = clients
          /\ calls' = calls
          /\ deletes' = deletes
          /\ waits' = waits
          /\ built'.was = clients[built'.client]
          /\ (built.client # 0 /\ built'.was = built.was /\ built'.opts = built.opts)
                => built'.reqOpts = built.reqOpts ]_vars

\* a request built while the forward context is enabled, the client being
\* still as it was
C29_Witness ==
    /\ built.client # 0
    /\ built.was = clients[built.client]
    /\ built.was.forwardCall.op = "enable"
    /\ built.reqOpts.headers.apiKey = "adminKey1"
    /\ built.reqOpts.headers.forwardedFor = "ip2"

\* the code points of a string of UTF-16 code units; a surrogate that is
\* not part of a pair stands for U+FFFD
RECURSIVE CodePoints(_)
CodePoints(text) ==
    IF text = <<>> THEN <<>>
    ELSE IF /\ Len(text) >= 2
            /\ text[1] >= 55296 /\ text[1] <= 56319
            /\ text[2] >= 56320 /\ text[2] <= 57343
         THEN << 65536 + (text[1] - 55296) * 1024 + (text[2] - 56320) >>
                  \o CodePoints(SubSeq(text, 3, Len(text)))
         ELSE << IF text[1] >= 55296 /\ text[1] <= 57343 THEN 65533 ELSE text[1] >>
                  \o CodePoints(Tail(text))

\* the bytes of the UTF-8 encoding of a sequence of code points
RECURSIVE Utf8Length(_)
Utf8Length(points) ==
    IF points = <<>> THEN 0
    ELSE (IF points[1] < 128 THEN 1
          ELSE IF points[1] < 2048 THEN 2
          ELSE IF points[1] < 65536 THEN 3
          ELSE 4) + Utf8Length(Tail(points))

\* C30: a request built with a body has the content type application/json
\* and, as content length, the number of bytes of the UTF-8 encoding of
\* the serialized body; a request built without a body has the content
\* length 0 and no content type.
C30_ContentHeadersFollowBody ==
    built.client # 0 =>
        IF built.opts.body.defined
        THEN /\ built.reqOpts.headers.contentType = "application/json"
             /\ built.reqOpts.headers.contentLength =
                    Utf8Length(CodePoints(built.opts.body.json))
        ELSE /\ built.reqOpts.headers.contentType = "<absent>"
             /\ built.reqOpts.headers.contentLength = 0

\* a request built with a body of four code units, two of them a surrogate
\* pair, and six bytes
C30_Witness ==
    /\ built.client # 0
    /\ built.opts.body.defined
    /\ built.opts.body.json = <<34, 55348, 56606, 34>>
    /\ built.reqOpts.headers.contentLength = 6

-----------------------------------------------------------------------------
(* C26: the identity of a client *)

\* the applicationID and apiKey arguments of the n-th client a process
\* constructs: two identities, taken in turn
IdentityOf(n) ==
    IF n % 2 = 1 THEN [applicationID |-> "app1", apiKey |-> "apiKey1"]
                 ELSE [applicationID |-> "app2", apiKey |-> "apiKey2"]

\* the responses to a status check explored with several clients: a task
\* that is pending and a task that is published
IdentityTaskResponses ==
    { r \in TaskResponses :
          /\ r.status = 200
          /\ r.ctype = "application/json"
          /\ r.text \in {"pendingTask", "published"} }

\* clients of different identities are constructed, their forward context
\* is enabled and disabled, requests are built, and a task is polled on the
\* first client, every status check being a dispatch
NextIdentity ==
    \/ \E id \in {IdentityOf(Len(clients) + 1)} :
           ConstructWith(id.applicationID, id.apiKey, <<"h1">>)
    \/ \E i \in 1..MaxBuilds :
           EnableRateLimitForward(i, "adminKey1", "ip1", "limitKey1")
    \/ \E i \in 1..MaxBuilds : DisableRateLimitForward(i)
    \/ \E i \in 1..MaxBuilds :
           ComputeRequestOptions(i, [DeleteOpts EXCEPT !.hostname = "h1"])
    \/ WaitTask
    \/ \E i \in 1..MaxChecks, k \in 1..MaxBuilds, resp \in IdentityTaskResponses :
           WaitResponseEnd(i, k, resp)

SpecIdentity == Init /\ [][NextIdentity]_vars

\* the requests built so far carry the applicationID of the client that
\* built them
RequestsCarryApplicationID ==
    /\ built.client # 0 =>
          built.reqOpts.headers.applicationId = clients[built.client].applicationID
    /\ \A c \in CallIds : \A k \in Attempts(c) :
          ReqOpts(c, k).headers.applicationId = clients[calls[c].client].applicationID
    /\ \A i \in 1..Len(waits.checks) : \A k \in 1..Len(waits.checks[i].attempts) :
          waits.checks[i].attempts[k].reqOpts.headers.applicationId
              = clients[waits.checks[i].client].applicationID

\* C26: the applicationID and the apiKey of a client stay what they are,
\* whatever is dispatched, polled, enabled, disabled or constructed after
\* it, and every request built carries the applicationID of its client in
\* the application-id header.
C26_IdentityIsImmutable ==
    /\ [][ \A i \in 1..Len(clients) :
              /\ i <= Len(clients')
              /\ clients'[i].applicationID = clients[i].applicationID
              /\ clients'[i].apiKey = clients[i].apiKey ]_vars
    /\ []RequestsCarryApplicationID

\* two clients of different identities, the first with its forward context
\* enabled, a request built on the second, and a task polled twice on the
\* first, the second time after the second client was constructed
C26_Witness ==
    /\ Len(clients) >= 2
    /\ clients[1].applicationID = "app1"
    /\ clients[2].applicationID = "app2"
    /\ clients[1].forwardCall.op = "enable"
    /\ built.client = 2
    /\ built.reqOpts.headers.applicationId = "app2"
    /\ Len(waits.checks) >= 2
    /\ Len(waits.checks[1].attempts) >= 1
    /\ Len(waits.checks[2].attempts) >= 1
    /\ Len(waits.checks[1].attempts[1].pool) = 1
    /\ Len(waits.checks[2].attempts[1].pool) = 2
    /\ waits.checks[2].attempts[1].reqOpts.headers.applicationId = "app1"

-----------------------------------------------------------------------------
(* C24: logical calls in flight together *)

\* two logical calls made on one client
ConcurrentCallIds == {"c1", "c2"}

\* the opts object each of them is made with
ConcurrentOpts(c) ==
    IF c = "c1"
    THEN CallerOpts("POST", "/1/keys", [defined |-> TRUE, json |-> <<123, 125>>])
    ELSE DeleteOpts

\* the responses explored for them: a success, a retryable and a
\* non-retryable failure, each with a JSON object and with raw text
ConcurrentResponses ==
    { r \in Responses :
          /\ r.status \in {200, 404, 503}
          /\ r.ctype \in {"application/json", "text/html"}
          /\ r.text \in {"object", "malformed"} }

\* the state after new AlgoliaSearch(applicationID, apiKey, httpsAgent,
\* hostsArray) as the first construction of the process, no call made yet
InitConcurrent ==
    /\ \E applicationID \in ApplicationIDs, apiKey \in ApiKeys, hostsArray \in HostLists :
           /\ Len(hostsArray) <= MaxWaitPool
           /\ hosts \in AddHosts(<<>>, hostsArray, 1)
           /\ clients = << disableRateLimitForward(
                              [NewClient EXCEPT !.applicationID = applicationID,
                                                !.apiKey = apiKey,
                                                !.hostsArray = hostsArray,
                                                !.pool = hosts]) >>
    /\ calls = [c \in ConcurrentCallIds |-> NewCall]
    /\ deletes = [c \in CallIds |-> NewDelete]
    /\ waits = NewWait
    /\ built = NoRequest

\* the two calls are made in either order, and the events of their
\* attempts arrive in any order
NextConcurrent ==
    \/ \E c \in ConcurrentCallIds : jsonRequest(c, 1, ConcurrentOpts(c))
    \/ \E c \in ConcurrentCallIds, k \in 1..MaxWaitPool, resp \in ConcurrentResponses :
           ResponseEnd(c, k, resp)
    \/ \E c \in ConcurrentCallIds, k \in 1..MaxWaitPool : RequestError(c, k)

SpecConcurrent == InitConcurrent /\ [][NextConcurrent]_vars

\* the call c has its own request options, its attempts follow the pool
\* from index 0, and its callback is given the outcome of its own last
\* attempt
KeepsToItself(c) ==
    /\ calls[c].started =>
          /\ calls[c].opts.method = ConcurrentOpts(c).method
          /\ calls[c].opts.url = ConcurrentOpts(c).url
          /\ calls[c].opts.body = ConcurrentOpts(c).body
    /\ \A k \in Attempts(c) :
          /\ calls[c].attempts[k].idx = k - 1
          /\ calls[c].attempts[k].host = hosts[k]
          /\ ReqOpts(c, k).hostname = hosts[k]
          /\ ReqOpts(c, k).method = ConcurrentOpts(c).method
          /\ ReqOpts(c, k).path = ConcurrentOpts(c).url
          /\ ReqOpts(c, k).headers.contentLength =
                 (IF ConcurrentOpts(c).body.defined THEN 2 ELSE 0)
    /\ calls[c].closure = Len(calls[c].attempts) - 1
    /\ Len(calls[c].cbs) <= 1
    /\ \A j \in Cbs(c) :
          LET cb == calls[c].cbs[j]
              k == cb.cause.att
          IN IF k = 0
             THEN /\ hosts = <<>>
                  /\ cb.error
                  /\ cb.body = [kind |-> "Cannot contact server", att |-> 0]
             ELSE /\ k = Len(calls[c].attempts)
                  /\ cb.idx = k - 1
                  /\ cb.body = OwnPayload(c, k, cb.cause.ev)
                  /\ cb.cause.ev = "end" =>
                         /\ Ended(c, k)
                         /\ cb.error = (Status(c, k) \notin {200, 201})
                  /\ cb.cause.ev = "error" => (Errored(c, k) /\ cb.error)

\* C24: two logical calls in flight on one client do not interfere,
\* however their events interleave: each keeps its own request options and
\* its own attempt index, the attempts of each follow the pool from index
\* 0, each caller's callback is given the outcome of the last attempt of
\* its own call, and a step of one call leaves the other call as it was.
C24_CallsDoNotInterfere ==
    /\ [](\A c \in ConcurrentCallIds : KeepsToItself(c))
    /\ [][ \A c \in ConcurrentCallIds : \A d \in ConcurrentCallIds :
              (c # d /\ calls'[c] # calls[c]) => calls'[d] = calls[d] ]_vars

\* both calls in flight together on a pool of two hosts, the first answered
\* by the second host after the second has failed on both
C24_Witness ==
    /\ Len(hosts) >= 2
    /\ Len(calls["c1"].attempts) = 2
    /\ Len(calls["c2"].attempts) = 2
    /\ calls["c2"].attempts[1].cause.ev = "start"
    /\ calls["c1"].attempts[2].resp.status = 200
    /\ calls["c1"].attempts[2].resp.ctype = "application/json"
    /\ calls["c2"].attempts[2].errored
    /\ Len(calls["c1"].cbs) = 1
    /\ Len(calls["c2"].cbs) = 1
    /\ ~calls["c1"].cbs[1].error
    /\ calls["c2"].cbs[1].error
    /\ calls["c2"].cbs[1].body.kind = "transport error"

-----------------------------------------------------------------------------
(* C31: the orders of a three-host pool *)

\* the four orders of the list h1, h2, h3
FourOrders ==
    { <<"h1", "h2", "h3">>, <<"h2", "h1", "h3">>,
      <<"h3", "h2", "h1">>, <<"h3", "h1", "h2">> }

\* C31: the first client of a process, constructed with the list h1, h2,
\* h3, leaves the pool in one of the four orders h1 h2 h3, h2 h1 h3,
\* h3 h2 h1, h3 h1 h2, and the constructor can produce each of the four:
\* every host can come first, and h3, listed last, is never in the middle.
C31_FourOrdersOfThreeHosts ==
    /\ (Len(clients) >= 1 /\ clients[1].hostsArray = <<"h1", "h2", "h3">>)
          => /\ clients[1].pool \in FourOrders
             /\ clients[1].pool[2] # "h3"
    /\ AddHosts(<<>>, <<"h1", "h2", "h3">>, 1) = FourOrders
    /\ {p[1] : p \in AddHosts(<<>>, <<"h1", "h2", "h3">>, 1)} = {"h1", "h2", "h3"}

\* the first client left the pool with the last listed host first and the
\* first listed host in the middle
C31_Witness ==
    /\ Len(clients) >= 1
    /\ clients[1].hostsArray = <<"h1", "h2", "h3">>
    /\ clients[1].pool = <<"h3", "h1", "h2">>

-----------------------------------------------------------------------------
(* C32: the forwarding headers and the forward context *)

\* the three fields of the forward context of a client are all null, or
\* the three arguments of the enable call made last on it
ContextIsOneCall(client) ==
    IF client.forwardCall.op = "enable"
    THEN /\ client.forwardAdminAPIKey = client.forwardCall.adminAPIKey
         /\ client.forwardEndUserIP = client.forwardCall.endUserIP
         /\ client.forwardLimitAPIKey = client.forwardCall.rateLimitAPIKey
    ELSE /\ client.forwardAdminAPIKey = "<null>"
         /\ client.forwardEndUserIP = "<null>"
         /\ client.forwardLimitAPIKey = "<null>"

\* C32: whatever enable and disable calls were made, with whatever
\* arguments, a null admin key included: a built request has the two
\* forwarding headers, both or none; it has them exactly when its API-key
\* header is taken from the forward admin key, and then they are the
\* limited key and the end user's address of the same enable call; without
\* them the API-key header is the client's own key; and the three fields
\* of the context of every client are all null or the arguments of one
\* enable call.
C32_ForwardingHeadersGoWithAdminKey ==
    /\ \A i \in 1..Len(clients) : ContextIsOneCall(clients[i])
    /\ built.client # 0 =>
          LET headers == built.reqOpts.headers
              forwarded == headers.forwardedAPIKey # "<absent>"
          IN /\ ContextIsOneCall(built.was)
             /\ forwarded = (headers.forwardedFor # "<absent>")
             /\ forwarded = ( /\ built.was.forwardAdminAPIKey # "<null>"
                              /\ headers.apiKey = built.was.forwardAdminAPIKey )
             /\ forwarded =>
                    /\ headers.forwardedAPIKey = built.was.forwardLimitAPIKey
                    /\ headers.forwardedFor = built.was.forwardEndUserIP
             /\ ~forwarded => headers.apiKey = built.was.apiKey

\* a request built after enable with a null admin key: the client's own
\* key and no forwarding header, the other two fields being set
C32_Witness ==
    /\ built.client # 0
    /\ built.was.forwardCall.op = "enable"
    /\ built.was.forwardCall.adminAPIKey = "<null>"
    /\ built.was.forwardEndUserIP = "ip2"
    /\ built.reqOpts.headers.apiKey = "apiKey1"
    /\ built.reqOpts.headers.forwardedFor = "<absent>"
    /\ built.reqOpts.headers.forwardedAPIKey = "<absent>"

-----------------------------------------------------------------------------
(* C33: a body that is published and pending *)

\* the i-th status check succeeded with a body whose status is 'published'
\* and whose pendingTask is truthy
SuccessPublishedAndPending(i) ==
    /\ Answered(i) /\ ~Outcome(i).error
    /\ ReportedText(i) = "published+pendingTask"

\* C33: a status check that succeeds with a body whose status is
\* 'published' ends the polling with success, also when the body has a
\* truthy pendingTask: the callback is invoked once, with error flag false
\* and that body, and no further status check is made.
C33_PublishedBeforePending ==
    \A m \in Checks :
        ( /\ \A i \in 1..m : AnsweredOnly(i)
          /\ SuccessPublishedAndPending(m) )
        => /\ Len(waits.checks) = m
           /\ Len(waits.cbs) = 1
           /\ ~waits.cbs[1].error
           /\ waits.cbs[1].check = m
           /\ waits.cbs[1].body = Outcome(m).body

\* a second status check answered published and pending, after a pending
\* first one
C33_Witness ==
    /\ Len(waits.checks) = 2
    /\ SuccessPending(1)
    /\ SuccessPublishedAndPending(2)
    /\ Len(waits.cbs) = 1
    /\ ~waits.cbs[1].error

====
